---- MODULE Spec2Model ----
(***************************************************************************)
(* Mobile QA multi-agent system: the orchestration loop of                 *)
(* SupervisorAgent.run_test, the retry / rate-limit discipline of          *)
(* PlannerAgent.analyze_and_plan, the dispatch of ExecutorAgent.execute    *)
(* and the verdict of TestResult.is_correct.                               *)
(*                                                                         *)
(* Time is counted in whole seconds.  The planner reads the clock only as  *)
(* time.time() - last_api_call_time, so the model keeps that difference,   *)
(* since_last_api_call, saturated at MaxClock.  The decision service and   *)
(* the device backend are the environment: every response and every device *)
(* outcome is drawn with \E from the sets below.                           *)
(***************************************************************************)
EXTENDS Integers, Sequences, FiniteSets, TLC

\* ------------------------------------------------------------------ bounds
\* config/settings.py sets MAX_STEPS = 20; the model runs the same loop with a
\* smaller budget.
MAX_STEPS == 2
\* The value at which the clock since_last_api_call saturates.
MaxClock == 6
\* Most seconds that pass, unobserved, between two readings of the clock.
MaxElapse == 3
\* Largest delay (seconds) the service suggests in a rate-limit error text.
MaxHint == 0
\* Most calls of execute a direct caller makes between two resets.
MaxExecutes == 2
\* Largest coordinate of a corner in a bounds string.
MaxCoord == 3
\* Most nodes in a UI dump.
MaxNodes == 2
\* Most test cases in a suite.
MaxTests == 2

\* --------------------------------------------------------- program constants
MAX_RETRIES == 2
API_CALL_DELAY == 3
INITIAL_RETRY_DELAY == 5

\* ------------------------------------------------------------------- values
\* TestStatus
PENDING == "pending"
RUNNING == "running"
PASSED == "passed"
FAILED == "failed"
ERROR == "error"
TestStatus == {PENDING, RUNNING, PASSED, FAILED, ERROR}

\* Python's None, for a screenshot; a captured screenshot is <<"png", k>>, k the
\* step whose capture it is (0: the initial one).
None == <<>>
Screenshot(k) == <<"png", k>>

\* Values of the "action" field of a JSON object.  Missing: the object has no
\* such field; Null: the field is JSON null; Number: the field is a number.
Missing == "<missing>"
Null == "<null>"
Number == "<number>"
ActionIds ==
    {"test_complete", "test_failed", "TEST_COMPLETE", "wait", "tap_by_text",
     "fly", Missing, Null, Number}

\* Is the value a Python str (so that .lower() exists)?
IsStr(id) == id \notin {Null, Number}

\* dict.get("action", ""): the default only replaces a missing key.
Get(action) == IF action.action = Missing THEN "" ELSE action.action

\* str.lower() on the identifiers of the model.
Lower(s) ==
    CASE s = "TEST_COMPLETE" -> "test_complete"
      [] s = "TEST_FAILED" -> "test_failed"
      [] s = "WAIT" -> "wait"
      [] s = "TAP" -> "tap"
      [] s = "TAP_BY_TEXT" -> "tap_by_text"
      [] OTHER -> s

\* An exception's text, by what the planner reads in it: a rate-limit
\* signature ("429", "quota", "rate") or none, "retry in Ns" (retry_in = N) and
\* "seconds: N" (seconds = N); -1: the pattern is not in the text.
NoError == [sig |-> "no error", retry_in |-> -1, seconds |-> -1]
ServiceErrors ==
    [sig : {"none", "429"}, retry_in : (-1)..MaxHint, seconds : (-1)..MaxHint]
\* 'list' object has no attribute 'get'
AttributeError == [sig |-> "none", retry_in |-> -1, seconds |-> -1]

\* The actions the decision service proposes: JSON objects (dict: the value
\* json.loads gives is a Python dict).
\* seconds: the "seconds" field, -1 when the object has none.
ServiceActions ==
    {[dict |-> TRUE, action |-> id, seconds |-> -1, description |-> "described",
      reason |-> NoError] : id \in ActionIds}

\* JSON that is not an object: a list, a string, a number, null.
NotAnObject ==
    [dict |-> FALSE, action |-> Missing, seconds |-> -1, description |-> "",
     reason |-> NoError]

\* What one call of generate_content can do.
Responses ==
    {[kind |-> "object", action |-> a, error |-> NoError] : a \in ServiceActions}
    \cup {[kind |-> k, action |-> NotAnObject, error |-> NoError] :
            k \in {"non_object", "non_json"}}
    \cup {[kind |-> "error", action |-> NotAnObject, error |-> e] : e \in ServiceErrors}

\* What the device does during one execute: the primitive (or the UI dump)
\* returns or raises, the element is found or not, the capture after the
\* action and the capture retried in the handler succeed or raise.
DeviceOutcomes ==
    [primitive : {"ok", "raise"}, found : BOOLEAN, shot : BOOLEAN, shot_retry : BOOLEAN]

VARIABLES
    pc,                   \* where run_test is
    since_last_api_call,  \* time.time() - PlannerAgent.last_api_call_time
    pending,              \* the test cases still to run
    current_test,         \* SupervisorAgent.current_test
    step_records,         \* SupervisorAgent.step_records
    test_results,         \* SupervisorAgent.test_results
    step,                 \* run_test: the loop variable
    current_screenshot,   \* run_test: current_screenshot
    previous_actions,     \* run_test: previous_actions
    final_status,         \* run_test: final_status
    final_message,        \* run_test: final_message
    action,               \* run_test: the action analyze_and_plan returned
    result,               \* what run_test returned
    raised,               \* the call an exception left run_test from
    attempt,              \* analyze_and_plan: attempt
    last_error,           \* analyze_and_plan: last_error
    plan_args,            \* analyze_and_plan: the arguments of the current call
    last_response,        \* analyze_and_plan: what the last generate_content did
    api_calls,            \* generate_content calls made in the current analyze_and_plan
    plan_calls,           \* analyze_and_plan calls made in the current run
    action_count,         \* ExecutorAgent.action_count
    last_action,          \* ExecutorAgent.last_action
    executed,             \* what the last call of ExecutorAgent.execute did
    results,              \* run_all_tests: results
    test_cases,           \* run_all_tests: the argument test_cases
    adb_call,             \* the last call of an ADBTools element function
    adb_result,           \* what that call returned or raised
    args,                 \* main: the parsed command line
    GOOGLE_API_KEY,       \* config.settings: is the credential set?
    adb_devices,          \* what subprocess.run(["adb", "devices"]) does
    exit_code,            \* what main returned (-1: it has not)
    tests_started         \* main has called run_test or run_all_tests

vars ==
    <<pc, since_last_api_call, pending, current_test, step_records, test_results, step,
      current_screenshot, previous_actions, final_status, final_message, action,
      result, raised, attempt, last_error, plan_args, last_response,
      api_calls, plan_calls, action_count, last_action, executed, results,
      test_cases, adb_call, adb_result, args, GOOGLE_API_KEY, adb_devices, exit_code,
      tests_started>>

supervisor_vars ==
    <<current_test, step_records, test_results, step, current_screenshot,
      previous_actions, final_status, final_message, result>>
planner_vars ==
    <<since_last_api_call, attempt, last_error, plan_args, last_response, api_calls>>
executor_vars == <<action_count, last_action, executed>>
suite_vars == <<results, test_cases>>
adb_vars == <<adb_call, adb_result>>
main_vars == <<args, GOOGLE_API_KEY, adb_devices, exit_code, tests_started>>

NoAction ==
    [dict |-> TRUE, action |-> Missing, seconds |-> -1, description |-> "",
     reason |-> NoError]
NoTest == [name |-> 0, should_pass |-> FALSE]
NoResult ==
    [test_case |-> NoTest, status |-> PENDING, actual_result |-> [text |-> "", arg |-> ""],
     steps_executed |-> <<>>, error_message |-> <<>>, screenshots |-> <<>>]
NoArgs == [screenshot |-> None, previous_actions |-> <<>>, current_step |-> 0]
\* No ADBTools element function has been called.
NoCall == [op |-> "none"]
NoCommand == [list |-> FALSE, skip_checks |-> FALSE, run |-> "none"]
NoProcess == [ends |-> "none", stdout |-> <<>>]
\* main has not been called: the agents are used directly.
MainNotCalled ==
    /\ args = NoCommand
    /\ GOOGLE_API_KEY = TRUE
    /\ adb_devices = NoProcess
    /\ exit_code = -1
    /\ tests_started = FALSE
\* execute has not been called.
NotExecuted ==
    [raises |-> FALSE, counted |-> FALSE, success |-> FALSE,
     message |-> [text |-> "", arg |-> ""], screenshot |-> None, remember |-> FALSE,
     trace |-> [invoked |-> {}, element |-> "none", caught |-> "none",
                recapture |-> "none"]]

\* ---------------------------------------------------------------- TestResult
\* Mutant: an ERROR counts as the failure a should_pass = false test expects.
is_correct_not_passed(r) ==
    IF r.test_case.should_pass THEN r.status = PASSED ELSE r.status # PASSED

\* TestResult.is_correct
is_correct(r) ==
    IF r.test_case.should_pass THEN r.status = PASSED ELSE r.status = FAILED

\* ---------------------------------------------------------------------- Init
Init ==
    /\ pc = "idle"
    /\ since_last_api_call = MaxClock   \* last_api_call_time = 0, long ago
    /\ pending \in {<<[name |-> 1, should_pass |-> b]>> : b \in BOOLEAN}
    /\ current_test = NoTest
    /\ step_records = <<>>
    /\ test_results = <<>>
    /\ step = 0
    /\ current_screenshot = None
    /\ previous_actions = <<>>
    /\ final_status = PENDING
    /\ final_message = [text |-> "", arg |-> ""]
    /\ action = NoAction
    /\ result = NoResult
    /\ raised = "nothing"
    /\ attempt = 0
    /\ last_error = NoError
    /\ plan_args = NoArgs
    /\ last_response = "none"
    /\ api_calls = 0
    /\ plan_calls = 0
    /\ action_count = 0
    /\ last_action = NoAction
    /\ executed = NotExecuted
    /\ results = <<>>
    /\ test_cases = <<>>
    /\ adb_call = NoCall
    /\ adb_result = NoCall
    /\ MainNotCalled

\* A message: a text with the value it names.
Message(text, arg) == [text |-> text, arg |-> arg]

\* -------------------------------------------------------------- PlannerAgent
\* A clock value, saturated.
Saturate(t) == IF t > MaxClock THEN MaxClock ELSE t

\* Mutant: the elapsed time is computed but never slept.
wait_for_rate_limit_no_sleep(elapsed) == 0

\* PlannerAgent._wait_for_rate_limit: the seconds it sleeps when elapsed
\* seconds have passed since the last call.
wait_for_rate_limit(elapsed) ==
    IF elapsed < API_CALL_DELAY THEN API_CALL_DELAY - elapsed ELSE 0

\* analyze_and_plan: self.last_api_call_time = time.time(), t seconds after the
\* previous call: the clock restarts.
record_api_call(t) == 0

\* Mutant: the suggested delay is slept without the buffer of one second.
extract_retry_delay_no_buffer(e) ==
    IF e.retry_in >= 0 THEN e.retry_in
    ELSE IF e.seconds >= 0 THEN e.seconds
    ELSE INITIAL_RETRY_DELAY

\* PlannerAgent._extract_retry_delay
extract_retry_delay(e) ==
    IF e.retry_in >= 0 THEN e.retry_in + 1
    ELSE IF e.seconds >= 0 THEN e.seconds + 1
    ELSE INITIAL_RETRY_DELAY

\* Mutant: every error of the service is taken for a rate limit.
is_rate_limit_always(e) == TRUE

\* analyze_and_plan: "429" in error_str or "quota" in ... or "rate" in ...
is_rate_limit(e) == e.sig # "none"

\* Mutant: a response that is not JSON ends the test.
ParseFallback_gives_up ==
    [dict |-> TRUE, action |-> "test_failed", seconds |-> -1,
     description |-> "Waiting due to planning error, will retry", reason |-> NoError]

\* analyze_and_plan: the safe default returned for a response that is not JSON.
ParseFallback ==
    [dict |-> TRUE, action |-> "wait", seconds |-> 1,
     description |-> "Waiting due to planning error, will retry", reason |-> NoError]

\* analyze_and_plan: the action returned when the retries are exhausted or the
\* error is not retryable.
ErrorFallback(e) ==
    [dict |-> TRUE, action |-> "test_failed", seconds |-> -1,
     description |-> "Internal planner error", reason |-> e]

\* Mutant: the retry ceiling is off by one.
retries_once_more(e, n) == is_rate_limit(e) /\ n <= MAX_RETRIES

\* analyze_and_plan: may the loop make another attempt after error e?
retries(e, n) == is_rate_limit(e) /\ n < MAX_RETRIES

\* The locals of analyze_and_plan once run_test has used what it returned.
plan_frame_dropped ==
    /\ attempt' = 0
    /\ last_error' = NoError
    /\ api_calls' = 0
    /\ plan_args' = NoArgs
    /\ last_response' = "none"

\* run_test calls analyze_and_plan for the current step.
analyze_and_plan_begin ==
    /\ pc = "loop"
    /\ plan_args' = [screenshot |-> current_screenshot,
                     previous_actions |-> previous_actions,
                     current_step |-> step]
    /\ attempt' = 0
    /\ last_error' = NoError
    /\ last_response' = "none"
    /\ api_calls' = 0
    /\ plan_calls' = plan_calls + 1
    /\ pc' = "planning"
    /\ UNCHANGED <<suite_vars, adb_vars, main_vars>>
    /\ UNCHANGED <<since_last_api_call, pending, supervisor_vars, action, raised,
                   executor_vars>>

\* analyze_and_plan: self._wait_for_rate_limit() at the head of an attempt.
\* d seconds have passed since the clock was last read.
rate_limit_wait ==
    /\ pc = "planning"
    /\ \E d \in 0..MaxElapse :
         LET elapsed == Saturate(since_last_api_call + d)
         IN  since_last_api_call' = Saturate(elapsed + wait_for_rate_limit(elapsed))
    /\ pc' = "calling"
    /\ UNCHANGED <<suite_vars, adb_vars, main_vars>>
    /\ UNCHANGED <<pending, supervisor_vars, action, raised, attempt, last_error,
                   plan_args, last_response, api_calls, plan_calls, executor_vars>>

\* analyze_and_plan: the try block after the call, on response resp: the
\* action it returns, or the exception it raises.  A value without .get
\* raises at the logging of the planned action.
try_block(resp) ==
    CASE resp.kind = "error" ->
           [raises |-> "Exception", error |-> resp.error, action |-> NoAction]
      [] resp.kind = "non_json" ->
           [raises |-> "JSONDecodeError", error |-> NoError, action |-> NoAction]
      [] ~resp.action.dict ->
           [raises |-> "AttributeError", error |-> AttributeError, action |-> NoAction]
      [] OTHER -> [raises |-> "no", error |-> NoError, action |-> resp.action]

\* Mutant: there is no clause for json.JSONDecodeError.
except_clause_exception_only(c) == "Exception"

\* Mutant: the second clause names the service's error class only.
except_clause_service_only(c) ==
    IF c = "JSONDecodeError" THEN "json.JSONDecodeError"
    ELSE IF c = "Exception" THEN "Exception" ELSE "none"

\* analyze_and_plan: the except clause that takes an exception of class c.
except_clause(c) == IF c = "JSONDecodeError" THEN "json.JSONDecodeError" ELSE "Exception"

\* Mutant: run_test plans again without executing the action returned.
plan_return_replans(a) ==
    /\ action' = a
    /\ pc' = "loop"
    /\ UNCHANGED <<attempt, raised>>

\* analyze_and_plan returns the action to run_test, which goes on to execute it.
plan_return(a) ==
    /\ action' = a
    /\ pc' = "execute"
    /\ UNCHANGED <<attempt, raised>>

\* Mutant: the retry is immediate, without time.sleep(retry_delay).
plan_except_no_sleep(e, t) ==
    /\ last_error' = e
    /\ since_last_api_call' = t
    /\ IF retries(e, attempt)
       THEN /\ attempt' = attempt + 1
            /\ pc' = "planning"
            /\ UNCHANGED <<action, raised>>
       ELSE plan_return(ErrorFallback(e))

\* analyze_and_plan: the handler of Exception, for an exception with text e,
\* t seconds after the call began.
plan_except(e, t) ==
    /\ last_error' = e
    /\ IF retries(e, attempt)
       THEN /\ since_last_api_call' = Saturate(t + extract_retry_delay(e))
            /\ attempt' = attempt + 1
            /\ pc' = "planning"
            /\ UNCHANGED <<action, raised>>
       ELSE /\ since_last_api_call' = t
            /\ plan_return(ErrorFallback(e))

\* analyze_and_plan: the rest of one attempt: the time of the call is
\* recorded, the service is called and its response or its exception handled.
generate_content ==
    /\ pc = "calling"
    /\ api_calls' = api_calls + 1
    /\ \E resp \in Responses :
         LET t == record_api_call(since_last_api_call)
             out == try_block(resp)
         IN  /\ last_response' = resp.kind
             /\ CASE out.raises = "no" ->
                       /\ plan_return(out.action)
                       /\ since_last_api_call' = t
                       /\ UNCHANGED last_error
                  [] except_clause(out.raises) = "json.JSONDecodeError" ->
                       /\ plan_return(ParseFallback)
                       /\ since_last_api_call' = t
                       /\ UNCHANGED last_error
                  [] except_clause(out.raises) = "Exception" -> plan_except(out.error, t)
                  [] OTHER ->
                       /\ pc' = "raised"
                       /\ raised' = "analyze_and_plan"
                       /\ since_last_api_call' = t
                       /\ UNCHANGED <<action, attempt, last_error>>
    /\ UNCHANGED <<suite_vars, adb_vars, main_vars>>
    /\ UNCHANGED <<pending, supervisor_vars, plan_args, plan_calls, executor_vars>>

\* ------------------------------------------------------------- ExecutorAgent
\* The action kinds execute dispatches to one device input primitive.
InputKinds ==
    {"tap", "double_tap", "long_press", "type_text", "swipe", "scroll_up",
     "scroll_down", "press_back", "press_home", "press_enter", "press_menu",
     "launch_app", "close_app", "clear_text"}
\* The kinds that resolve an element in the UI dump and tap its centre.
TapByKinds == {"tap_by_text", "tap_by_resource_id", "tap_by_hint"}
\* Every kind execute has a branch for.
KnownKinds == InputKinds \cup {"wait"} \cup TapByKinds \cup {"test_complete", "test_failed"}

\* What one call of execute did on the device, beside what it returns.
\* invoked: the backend calls it made ("input": a device input primitive,
\* "ui_dump": the dump of the UI hierarchy, "sleep": adb.wait, "screenshot":
\* a capture); element: what the search in the dump gave; caught: the call
\* whose exception the handler took; recapture: the handler's own capture.
Trace(invoked, element, caught, recapture) ==
    [invoked |-> invoked, element |-> element, caught |-> caught,
     recapture |-> recapture]
NoTrace == Trace({}, "none", "none", "none")

\* Mutant: the handler's own capture is not guarded.
execute_except_unguarded(env, k, invoked, element, caught) ==
    [raises |-> ~env.shot_retry, counted |-> TRUE, success |-> FALSE,
     message |-> Message("Execution error", "exception"),
     screenshot |-> IF env.shot_retry THEN Screenshot(k) ELSE None,
     remember |-> FALSE,
     trace |-> Trace(invoked \cup {"screenshot"}, element, caught,
                     IF env.shot_retry THEN "ok" ELSE "raise")]

\* The except handler of execute, for an exception of the call named caught:
\* a best-effort screenshot.
execute_except(env, k, invoked, element, caught) ==
    [raises |-> FALSE, counted |-> TRUE, success |-> FALSE,
     message |-> Message("Execution error", "exception"),
     screenshot |-> IF env.shot_retry THEN Screenshot(k) ELSE None,
     remember |-> FALSE,
     trace |-> Trace(invoked \cup {"screenshot"}, element, caught,
                     IF env.shot_retry THEN "ok" ELSE "raise")]

\* execute returns (success, message, a screenshot it captures).
execute_return(success, message, env, k, remember, invoked, element) ==
    IF env.shot
    THEN [raises |-> FALSE, counted |-> TRUE, success |-> success, message |-> message,
          screenshot |-> Screenshot(k), remember |-> remember,
          trace |-> Trace(invoked \cup {"screenshot"}, element, "none", "none")]
    ELSE execute_except(env, k, invoked \cup {"screenshot"}, element, "screenshot")

\* ExecutorAgent.execute on action a at step k, the device behaving as env.
\* raises: the exception left execute; counted: action_count was advanced;
\* remember: last_action was set.
execute(a, env, k) ==
    IF ~IsStr(a.action)
    THEN \* action.get("action", "").lower(): None has no lower()
         [raises |-> TRUE, counted |-> FALSE, success |-> FALSE,
          message |-> Message("AttributeError", a.action), screenshot |-> None,
          remember |-> FALSE, trace |-> NoTrace]
    ELSE LET action_type == Lower(Get(a))
         IN  CASE action_type \in InputKinds ->
                    IF env.primitive = "raise"
                    THEN execute_except(env, k, {"input"}, "none", "primitive")
                    ELSE execute_return(TRUE, Message("Done", action_type), env, k,
                                        TRUE, {"input"}, "none")
               [] action_type = "wait" ->
                    IF env.primitive = "raise"
                    THEN execute_except(env, k, {"sleep"}, "none", "primitive")
                    ELSE execute_return(TRUE, Message("Waited", "seconds"), env, k,
                                        TRUE, {"sleep"}, "none")
               [] action_type \in TapByKinds ->
                    IF ~env.found
                    THEN IF env.primitive = "raise"   \* the UI dump raises
                         THEN execute_except(env, k, {"ui_dump"}, "none", "ui_dump")
                         ELSE execute_return(FALSE, Message("Could not find", action_type),
                                             env, k, FALSE, {"ui_dump"}, "not_found")
                    ELSE IF env.primitive = "raise"   \* the tap raises
                         THEN execute_except(env, k, {"ui_dump", "input"}, "found",
                                             "primitive")
                         ELSE execute_return(TRUE, Message("Tapped", "center"), env, k,
                                             TRUE, {"ui_dump", "input"}, "found")
               [] action_type = "test_complete" ->
                    execute_return(TRUE, Message("Test completed with result", "pass"),
                                   env, k, FALSE, {}, "none")
               [] action_type = "test_failed" ->
                    execute_return(TRUE, Message("Test failed", a.reason), env, k,
                                   FALSE, {}, "none")
               [] OTHER ->
                    [raises |-> FALSE, counted |-> TRUE, success |-> FALSE,
                     message |-> Message("Unknown action type", action_type),
                     screenshot |-> None, remember |-> FALSE, trace |-> NoTrace]

\* What the caller of execute receives: the tuple (success, message,
\* screenshot), or the exception; what happened on the device stays there.
Returned(r) == [r EXCEPT !.trace = NoTrace]

\* Mutant: reset also forgets when the decision service was last called.
planner_reset_forgets_last_call == since_last_api_call' = MaxClock

\* PlannerAgent.reset clears the history, which analyze_and_plan never reads,
\* and leaves last_api_call_time as it is.
planner_reset == since_last_api_call' = since_last_api_call

\* ExecutorAgent.reset has run: the executor's state at the start of a test.
executor_reset == action_count' = 0 /\ last_action' = NoAction

\* ----------------------------------------------------------- SupervisorAgent
\* Mutant: the loop lower-cases the identifier, as execute does.
is_terminal_any_case(action_type) ==
    Lower(action_type) \in {"test_complete", "test_failed"}

\* Mutant: the test_failed branch is missing.
is_terminal_complete_only(action_type) == action_type = "test_complete"

\* The terminal actions of run_test's loop.
is_terminal(action_type) == action_type \in {"test_complete", "test_failed"}

\* SupervisorAgent._record_step: the StepRecord appended; saved: the screenshot
\* file could be written.
StepRecord(k, a, r, saved) ==
    [step_number |-> k, action |-> a, success |-> r.success, message |-> r.message,
     screenshot_path |-> IF r.screenshot # None /\ saved
                         THEN <<current_test.name, k>> ELSE None]

\* Mutant: the summary reports every executed step as a success.
Summary_always_success(k, a, r) ==
    [step |-> k, action |-> Get(a), description |-> a.description, success |-> TRUE]

\* Mutant: the summary counts the steps from 0.
Summary_zero_based(k, a, r) ==
    [step |-> k - 1, action |-> Get(a), description |-> a.description,
     success |-> r.success]

\* run_test: the summary appended to previous_actions.
Summary(k, a, r) ==
    [step |-> k, action |-> Get(a), description |-> a.description,
     success |-> r.success]

\* Mutant: the step of the terminal action is left out of the result.
create_result_without_last(test_case, status, message, records) ==
    [test_case |-> test_case, status |-> status, actual_result |-> message,
     steps_executed |->
        [i \in 1..(Len(records) - 1) |->
            <<records[i].step_number,
              IF records[i].action.action = Missing THEN "unknown"
              ELSE records[i].action.action,
              records[i].action.description>>],
     error_message |-> None,
     screenshots |-> SelectSeq([i \in 1..Len(records) |-> records[i].screenshot_path],
                               LAMBDA p : p # None)]

\* SupervisorAgent._create_result
create_result(test_case, status, message, records) ==
    [test_case |-> test_case, status |-> status, actual_result |-> message,
     steps_executed |->
        [i \in 1..Len(records) |->
            <<records[i].step_number,
              IF records[i].action.action = Missing THEN "unknown"
              ELSE records[i].action.action,
              records[i].action.description>>],
     error_message |-> None,
     screenshots |-> SelectSeq([i \in 1..Len(records) |-> records[i].screenshot_path],
                               LAMBDA p : p # None)]

\* Mutant: the error result carries the status FAILED.
create_error_result_failed(test_case, error_message) ==
    [test_case |-> test_case, status |-> FAILED, actual_result |-> error_message,
     steps_executed |-> <<>>, error_message |-> error_message, screenshots |-> <<>>]

\* SupervisorAgent._create_error_result
create_error_result(test_case, error_message) ==
    [test_case |-> test_case, status |-> ERROR, actual_result |-> error_message,
     steps_executed |-> <<>>, error_message |-> error_message, screenshots |-> <<>>]

\* Mutant: the step records of the test before are kept.
run_test_begin_keeps_records ==
    /\ pc \in {"idle", "returned"}
    /\ pending # <<>>
    /\ current_test' = Head(pending)
    /\ pending' = Tail(pending)
    /\ planner_reset
    /\ executor_reset
    /\ UNCHANGED executed
    /\ result' = NoResult
    /\ plan_calls' = 0
    /\ pc' = "prepare"
    /\ UNCHANGED <<suite_vars, adb_vars, main_vars>>
    /\ UNCHANGED <<step_records, test_results, step, current_screenshot,
                   previous_actions, final_status, final_message, action, raised,
                   attempt, last_error, plan_args, last_response, api_calls>>

\* run_test, up to the preparation of the emulator: both agents are reset.
run_test_begin ==
    /\ pc \in {"idle", "returned"}
    /\ pending # <<>>
    /\ current_test' = Head(pending)
    /\ pending' = Tail(pending)
    /\ step_records' = <<>>
    /\ planner_reset
    /\ executor_reset
    /\ UNCHANGED executed
    /\ result' = NoResult
    /\ plan_calls' = 0
    /\ pc' = "prepare"
    /\ UNCHANGED <<suite_vars, adb_vars, main_vars>>
    /\ UNCHANGED <<test_results, step, current_screenshot, previous_actions,
                   final_status, final_message, action, raised, attempt, last_error,
                   plan_args, last_response, api_calls>>

\* run_test: executor.prepare_for_test(); press_home and launch_app are not
\* guarded, so a backend failure leaves run_test.
prepare_for_test ==
    /\ pc = "prepare"
    /\ \E ok \in BOOLEAN :
         IF ok THEN pc' = "screenshot" /\ UNCHANGED raised
         ELSE pc' = "raised" /\ raised' = "prepare_for_test"
    /\ UNCHANGED <<suite_vars, adb_vars, main_vars>>
    /\ UNCHANGED <<pending, supervisor_vars, action, planner_vars, plan_calls,
                   executor_vars>>

\* run_test: the initial screenshot and the locals of the loop.
get_current_screenshot ==
    /\ pc = "screenshot"
    /\ \E ok \in BOOLEAN :
         IF ok
         THEN /\ current_screenshot' = Screenshot(0)
              /\ previous_actions' = <<>>
              /\ final_status' = RUNNING
              /\ final_message' = Message("", "")
              /\ step' = 1
              /\ pc' = "loop"
              /\ UNCHANGED result
         ELSE /\ result' = create_error_result(
                               current_test,
                               Message("Failed to get initial screenshot", "exception"))
              /\ pc' = "returned"
              /\ UNCHANGED <<current_screenshot, previous_actions, final_status,
                             final_message, step>>
    /\ UNCHANGED <<suite_vars, adb_vars, main_vars>>
    /\ UNCHANGED <<pending, current_test, step_records, test_results, action,
                   raised, planner_vars, plan_calls, executor_vars>>

\* run_test: the result is created, stored and returned.
finish(status, message, records) ==
    /\ final_status' = status
    /\ final_message' = message
    /\ result' = create_result(current_test, status, message, records)
    /\ test_results' = Append(test_results,
                              create_result(current_test, status, message, records))
    /\ pc' = "returned"
    /\ UNCHANGED step

\* Mutant: both terminal actions pass the test.
terminal_status_passed(a) == PASSED

\* run_test: the status and message a terminal action sets.
terminal_status(a) == IF Get(a) = "test_complete" THEN PASSED ELSE FAILED
terminal_message(a) ==
    IF Get(a) = "test_complete" THEN Message(a.description, "description")
    ELSE Message("reason", a.reason)

\* run_test: the rest of one iteration, after analyze_and_plan has returned:
\* the terminal check, execute, _record_step, the update of the loop's state
\* and, when the loop ends, the result.
execute_step ==
    /\ pc = "execute"
    /\ \E r \in {Returned(execute(action, env, step)) : env \in DeviceOutcomes} :
       \E saved \in IF r.screenshot = None THEN {TRUE} ELSE BOOLEAN :
         LET records == Append(step_records, StepRecord(step, action, r, saved))
         IN  IF ~action.dict \/ r.raises
             THEN \* action.get in run_test, or .lower() in execute, raises
                  /\ pc' = "raised"
                  /\ raised' = IF ~action.dict THEN "run_test" ELSE "execute"
                  /\ executed' = IF ~action.dict THEN executed ELSE r
                  /\ UNCHANGED <<attempt, last_error, plan_args, last_response,
                                 api_calls>>
                  /\ UNCHANGED <<step_records, test_results, step, current_screenshot,
                                 previous_actions, final_status, final_message, result,
                                 action_count, last_action>>
             ELSE /\ plan_frame_dropped
                  /\ executed' = r
                  /\ action_count' = action_count + 1
                  /\ last_action' = IF r.remember THEN action ELSE last_action
                  /\ step_records' = records
                  /\ UNCHANGED raised
                  /\ IF is_terminal(Get(action))
                     THEN /\ finish(terminal_status(action), terminal_message(action),
                                    records)
                          /\ UNCHANGED <<current_screenshot, previous_actions>>
                     ELSE /\ current_screenshot' =
                                IF r.screenshot # None THEN r.screenshot
                                ELSE current_screenshot
                          /\ previous_actions' =
                                Append(previous_actions, Summary(step, action, r))
                          /\ IF step < MAX_STEPS
                             THEN /\ step' = step + 1
                                  /\ pc' = "loop"
                                  /\ UNCHANGED <<final_status, final_message, result,
                                                 test_results>>
                             ELSE finish(ERROR,
                                         Message("Test did not complete within steps",
                                                 MAX_STEPS),
                                         records)
    /\ UNCHANGED <<suite_vars, adb_vars, main_vars>>
    /\ UNCHANGED <<pending, current_test, action, since_last_api_call, plan_calls>>

Next ==
    \/ run_test_begin
    \/ prepare_for_test
    \/ get_current_screenshot
    \/ analyze_and_plan_begin
    \/ rate_limit_wait
    \/ generate_content
    \/ execute_step

Spec == Init /\ [][Next]_vars

\* ------------------------------------- run_test called again on a supervisor
\* An earlier test of the same supervisor: the service proposed wait and then
\* test_complete, and the device did all it was asked.
EarlierTest == [name |-> 1, should_pass |-> TRUE]
EarlierActions ==
    <<[dict |-> TRUE, action |-> "wait", seconds |-> -1, description |-> "described",
       reason |-> NoError],
      [dict |-> TRUE, action |-> "test_complete", seconds |-> -1,
       description |-> "described", reason |-> NoError]>>
DeviceOk == [primitive |-> "ok", found |-> TRUE, shot |-> TRUE, shot_retry |-> TRUE]
EarlierExecuted == [k \in 1..2 |-> Returned(execute(EarlierActions[k], DeviceOk, k))]
EarlierRecords ==
    [k \in 1..2 |->
        [step_number |-> k, action |-> EarlierActions[k],
         success |-> EarlierExecuted[k].success, message |-> EarlierExecuted[k].message,
         screenshot_path |-> <<EarlierTest.name, k>>]]
EarlierResult ==
    create_result(EarlierTest, PASSED, terminal_message(EarlierActions[2]),
                  EarlierRecords)

\* The supervisor and its agents when run_test has returned EarlierResult.
EarlierTestReturned ==
    /\ pc = "returned"
    /\ current_test = EarlierTest
    /\ step_records = EarlierRecords
    /\ test_results = <<EarlierResult>>
    /\ step = 2
    /\ current_screenshot = Screenshot(1)
    /\ previous_actions = <<Summary(1, EarlierActions[1], EarlierExecuted[1])>>
    /\ final_status = PASSED
    /\ final_message = terminal_message(EarlierActions[2])
    /\ action = EarlierActions[2]
    /\ result = EarlierResult
    /\ raised = "nothing"
    /\ attempt = 0
    /\ last_error = NoError
    /\ plan_args = NoArgs
    /\ last_response = "none"
    /\ api_calls = 0
    /\ plan_calls = 2
    /\ action_count = 2
    /\ last_action = EarlierActions[1]
    /\ executed = EarlierExecuted[2]
    /\ results = <<>>
    /\ test_cases = <<>>
    /\ adb_call = NoCall
    /\ adb_result = NoCall
    /\ MainNotCalled

\* run_test is about to be called on a second test case, any time after the
\* earlier test's last call of the decision service.
RerunInit ==
    /\ EarlierTestReturned
    /\ since_last_api_call \in 0..MaxClock
    /\ pending \in {<<[name |-> 2, should_pass |-> b]>> : b \in BOOLEAN}

RerunSpec == RerunInit /\ [][Next]_vars

\* ------------------------------------------------- ExecutorAgent on its own
\* ExecutorAgent.execute called directly, on every kind of action it has a
\* branch for, on identifiers it has none for, and in every device outcome.
ExecutorIds ==
    KnownKinds \cup {"TEST_COMPLETE", "TAP", "TAP_BY_TEXT", "fly", Missing, Null, Number}
ExecutorActions ==
    {[dict |-> TRUE, action |-> id, seconds |-> -1, description |-> "described",
      reason |-> NoError] : id \in ExecutorIds}

\* A caller constructs ExecutorAgent: no action executed, none remembered.
ExecutorInit ==
    /\ pc = "executor"
    /\ since_last_api_call = MaxClock
    /\ pending = <<>>
    /\ current_test = NoTest
    /\ step_records = <<>>
    /\ test_results = <<>>
    /\ step = 0
    /\ current_screenshot = None
    /\ previous_actions = <<>>
    /\ final_status = PENDING
    /\ final_message = [text |-> "", arg |-> ""]
    /\ action = NoAction
    /\ result = NoResult
    /\ raised = "nothing"
    /\ attempt = 0
    /\ last_error = NoError
    /\ plan_args = NoArgs
    /\ last_response = "none"
    /\ api_calls = 0
    /\ plan_calls = 0
    /\ action_count = 0
    /\ last_action = NoAction
    /\ executed = NotExecuted
    /\ results = <<>>
    /\ test_cases = <<>>
    /\ adb_call = NoCall
    /\ adb_result = NoCall
    /\ MainNotCalled

\* One call execute(a): the counter, the remembered action, what it returns.
execute_call ==
    /\ pc = "executor"
    /\ action_count < MaxExecutes
    /\ \E a \in ExecutorActions :
       \E r \in {execute(a, env, action_count + 1) : env \in DeviceOutcomes} :
         /\ action' = a
         /\ executed' = r
         /\ action_count' = IF r.counted THEN action_count + 1 ELSE action_count
         /\ last_action' = IF r.remember THEN a ELSE last_action
    /\ UNCHANGED <<suite_vars, adb_vars, main_vars>>
    /\ UNCHANGED <<pc, since_last_api_call, pending, supervisor_vars, raised, attempt,
                   last_error, plan_args, last_response, api_calls, plan_calls>>

\* One call of ExecutorAgent.reset.
executor_reset_call ==
    /\ pc = "executor"
    /\ executor_reset
    /\ UNCHANGED <<suite_vars, adb_vars, main_vars>>
    /\ UNCHANGED <<pc, since_last_api_call, pending, supervisor_vars, action, raised,
                   attempt, last_error, plan_args, last_response, api_calls,
                   plan_calls, executed>>

ExecutorNext == execute_call \/ executor_reset_call

ExecutorSpec == ExecutorInit /\ [][ExecutorNext]_vars

\* ------------------------------------------------- ADBTools element functions
\* A string is a sequence of characters; the letter "A" is the upper case of
\* "a", "B" of "b".
Chars == {"a", "A", "b", "B"}
LowerChar(c) == CASE c = "A" -> "a" [] c = "B" -> "b" [] OTHER -> c
\* str.lower()
LowerStr(str) == [i \in 1..Len(str) |-> LowerChar(str[i])]
\* q in str
Contains(q, str) ==
    \E i \in 0..(Len(str) - Len(q)) : \A j \in 1..Len(q) : str[i + j] = q[j]

\* The queries and the attribute values of the model.
Queries == {<<>>, <<"a">>, <<"A">>, <<"a", "b">>, <<"B">>}
Attributes == {<<>>, <<"a">>, <<"A">>, <<"a", "b">>, <<"A", "B">>, <<"b", "a">>}

\* A bounds string, in pieces: a corner "[x,y]" of decimal digits, which
\* \[(\d+),(\d+)\] matches, or text it does not match (a negative
\* coordinate, a letter, a bracket left open).
Corner(x, y) == [ok |-> TRUE, x |-> x, y |-> y]
Junk == [ok |-> FALSE, x |-> 0, y |-> 0]
Pieces == {Corner(x, y) : x \in 0..MaxCoord, y \in 0..MaxCoord} \cup {Junk}
BoundsStrings ==
    {<<>>} \cup {<<c>> : c \in Pieces} \cup {<<c, d>> : c, d \in Pieces}
    \cup {<<c, d, e>> : c, d, e \in Pieces}

\* ADBTools._parse_bounds: re.findall collects the corners, wherever they
\* are in the string; exactly two give (x1, y1, x2, y2).
parse_bounds(b) ==
    LET match == SelectSeq(b, LAMBDA c : c.ok)
    IN  IF Len(match) = 2
        THEN [raises |-> "no",
              value |-> <<match[1].x, match[1].y, match[2].x, match[2].y>>]
        ELSE [raises |-> "ValueError", value |-> <<>>]

\* Mutant: the centre is the first corner.
get_center_corner(bounds) == <<bounds[1], bounds[2]>>

\* ADBTools._get_center
get_center(bounds) == <<(bounds[1] + bounds[3]) \div 2, (bounds[2] + bounds[4]) \div 2>>

\* The bounds attribute of a node the search patterns match: two bracketed
\* groups, each a corner or not.
NodeBounds ==
    {<<Corner(0, 0), Corner(MaxCoord, MaxCoord)>>,
     <<Corner(1, 0), Corner(MaxCoord, 1)>>,
     <<Junk, Corner(MaxCoord, MaxCoord)>>}
\* A node of the UI dump: the attribute searched and the bounds.
Nodes == [attr : Attributes, bounds : NodeBounds]
\* The UI dumps of the model, nodes in document order.
RECURSIVE SnapshotsOf(_)
SnapshotsOf(n) ==
    IF n = 0 THEN {<<>>}
    ELSE LET shorter == SnapshotsOf(n - 1)
         IN  shorter \cup {Append(sn, node) : sn \in {x \in shorter : Len(x) = n - 1},
                                               node \in Nodes}
Snapshots == SnapshotsOf(MaxNodes)

SearchKinds == {"text", "text_contains", "resource_id", "hint"}

\* Mutant: the exact-text search ignores letter case.
matches_ignoring_case(kind, q, attr) ==
    CASE kind = "text" -> LowerStr(attr) = LowerStr(q)
      [] kind = "text_contains" -> attr # <<>> /\ Contains(LowerStr(q), LowerStr(attr))
      [] kind = "resource_id" -> attr # <<>> /\ Contains(q, attr)
      [] kind = "hint" -> attr # <<>> /\ Contains(LowerStr(q), LowerStr(attr))

\* The test each search applies to the attribute it has found in a node.
matches(kind, q, attr) ==
    CASE kind = "text" -> attr = q
      [] kind = "text_contains" -> attr # <<>> /\ Contains(LowerStr(q), LowerStr(attr))
      [] kind = "resource_id" -> attr # <<>> /\ Contains(q, attr)
      [] kind = "hint" -> attr # <<>> /\ Contains(LowerStr(q), LowerStr(attr))

\* A search returns None.
NotFound ==
    [found |-> FALSE, index |-> 0, attr |-> <<>>, bounds |-> <<>>, center |-> <<>>]

\* find_element_by_text, _by_text_contains, _by_resource_id, _by_hint: the
\* loop over the nodes from the i-th on.  A node that matches is returned
\* when its bounds parse; ValueError is caught and the loop goes on.  index:
\* the place of the node in the dump.
RECURSIVE find_element_from(_, _, _, _)
find_element_from(kind, q, snapshot, i) ==
    IF i > Len(snapshot) THEN NotFound
    ELSE LET node == snapshot[i]
             parsed == parse_bounds(node.bounds)
         IN  IF matches(kind, q, node.attr) /\ parsed.raises = "no"
             THEN [found |-> TRUE, index |-> i,
                   attr |-> IF kind = "text" THEN q ELSE node.attr,
                   bounds |-> parsed.value, center |-> get_center(parsed.value)]
             ELSE find_element_from(kind, q, snapshot, i + 1)

find_element(kind, q, snapshot) == find_element_from(kind, q, snapshot, 1)

\* tap_element_by_text, _by_resource_id, _by_hint: the point tapped, or the
\* message that the element could not be found.
tap_element(kind, q, snapshot) ==
    LET element == find_element(kind, q, snapshot)
    IN  IF element.found
        THEN [tapped |-> TRUE, point |-> element.center, message |-> "Tapped at"]
        ELSE [tapped |-> FALSE, point |-> <<>>, message |-> "Could not find"]

\* The variables of the agents as the constructors leave them, control at p;
\* the arguments of the call to come are left to the caller.
Constructed(p) ==
    /\ pc = p
    /\ since_last_api_call = MaxClock
    /\ current_test = NoTest
    /\ step_records = <<>>
    /\ test_results = <<>>
    /\ step = 0
    /\ current_screenshot = None
    /\ previous_actions = <<>>
    /\ final_status = PENDING
    /\ final_message = [text |-> "", arg |-> ""]
    /\ action = NoAction
    /\ result = NoResult
    /\ raised = "nothing"
    /\ attempt = 0
    /\ last_error = NoError
    /\ plan_args = NoArgs
    /\ last_response = "none"
    /\ api_calls = 0
    /\ plan_calls = 0
    /\ action_count = 0
    /\ last_action = NoAction
    /\ executed = NotExecuted
    /\ results = <<>>
    /\ adb_result = NoCall

\* ------------------------------------------------ SupervisorAgent.run_all_tests
\* The test suites of the model: test i of a suite has name i.
RECURSIVE SuitesOf(_)
SuitesOf(n) ==
    IF n = 0 THEN {<<>>}
    ELSE LET shorter == SuitesOf(n - 1)
         IN  shorter \cup {Append(t, [name |-> n, should_pass |-> b]) :
                              t \in {x \in shorter : Len(x) = n - 1}, b \in BOOLEAN}

\* The ways one call of run_test ends, as run_all_tests sees it: a result
\* created after the loop and appended to test_results, the error result of
\* a failed initial screenshot, which is not appended, or an exception.
RunTestOutcomes ==
    {[ends |-> "returned", status |-> st, appended |-> TRUE] :
        st \in {PASSED, FAILED, ERROR}}
    \cup {[ends |-> "returned", status |-> ERROR, appended |-> FALSE],
          [ends |-> "raised", status |-> RUNNING, appended |-> FALSE]}

\* The TestResult of an outcome.
ResultOf(test_case, o) ==
    IF o.appended
    THEN create_result(test_case, o.status, Message("final message", o.status), <<>>)
    ELSE create_error_result(test_case,
                             Message("Failed to get initial screenshot", "exception"))

\* A caller is about to call run_all_tests(test_cases).
SuiteInit ==
    /\ Constructed("suite")
    /\ MainNotCalled
    /\ pending = <<>>
    /\ adb_call = NoCall
    /\ test_cases \in SuitesOf(MaxTests)

\* run_all_tests: results = [] and the loop over test_cases begins.
run_all_tests_begin ==
    /\ pc = "suite"
    /\ results' = <<>>
    /\ pending' = test_cases
    /\ pc' = "suite_loop"
    /\ UNCHANGED <<since_last_api_call, supervisor_vars, action, raised, planner_vars,
                   plan_calls, executor_vars, test_cases, adb_vars, main_vars>>

\* Mutant: the loop takes the test cases from the end of the list.
suite_run_test_call_from_end ==
    /\ pc = "suite_loop"
    /\ pending # <<>>
    /\ current_test' = pending[Len(pending)]
    /\ pending' = SubSeq(pending, 1, Len(pending) - 1)
    /\ step_records' = <<>>
    /\ executor_reset
    /\ pc' = "suite_in_test"
    /\ UNCHANGED <<since_last_api_call, test_results, step, current_screenshot,
                   previous_actions, final_status, final_message, result, action,
                   raised, planner_vars, plan_calls, executed, suite_vars, adb_vars, main_vars>>

\* run_all_tests: the next iteration calls run_test on the next test case,
\* which resets the agents and its own records.
suite_run_test_call ==
    /\ pc = "suite_loop"
    /\ pending # <<>>
    /\ current_test' = Head(pending)
    /\ pending' = Tail(pending)
    /\ step_records' = <<>>
    /\ executor_reset
    /\ pc' = "suite_in_test"
    /\ UNCHANGED <<since_last_api_call, test_results, step, current_screenshot,
                   previous_actions, final_status, final_message, result, action,
                   raised, planner_vars, plan_calls, executed, suite_vars, adb_vars, main_vars>>

\* run_all_tests: run_test returns and its result is appended to results, or
\* run_test raises and the exception leaves run_all_tests.
suite_run_test_return ==
    /\ pc = "suite_in_test"
    /\ \E o \in RunTestOutcomes :
         IF o.ends = "raised"
         THEN /\ pc' = "suite_raised"
              /\ raised' = "run_test"
              /\ UNCHANGED <<result, test_results, results>>
         ELSE /\ result' = ResultOf(current_test, o)
              /\ test_results' = IF o.appended
                                 THEN Append(test_results, ResultOf(current_test, o))
                                 ELSE test_results
              /\ results' = Append(results, ResultOf(current_test, o))
              /\ pc' = "suite_loop"
              /\ UNCHANGED raised
    /\ UNCHANGED <<since_last_api_call, pending, current_test, step_records, step,
                   current_screenshot, previous_actions, final_status, final_message,
                   action, planner_vars, plan_calls, executor_vars, test_cases,
                   adb_vars, main_vars>>

\* run_all_tests: after the loop, _print_summary(results) and return results.
\* The summary divides by the number of results.
run_all_tests_return ==
    /\ pc = "suite_loop"
    /\ pending = <<>>
    /\ IF Len(results) = 0
       THEN pc' = "suite_raised" /\ raised' = "_print_summary"
       ELSE pc' = "suite_returned" /\ UNCHANGED raised
    /\ UNCHANGED <<since_last_api_call, pending, supervisor_vars, action, planner_vars,
                   plan_calls, executor_vars, suite_vars, adb_vars, main_vars>>

SuiteNext ==
    \/ run_all_tests_begin
    \/ suite_run_test_call
    \/ suite_run_test_return
    \/ run_all_tests_return

SuiteSpec == SuiteInit /\ [][SuiteNext]_vars

\* ------------------------------------------------------------------ main.py
\* The words of the output of "adb devices" and the search words that are
\* substrings of each: "device" is within "devices".
Within(word, token) ==
    CASE word = "device" -> token \in {"device", "devices"}
      [] word = "emulator" -> token = "emulator-5554"
      [] OTHER -> token = word
\* Python's "word in text", the text given word by word.
InText(word, text) == \E i \in 1..Len(text) : Within(word, text[i])

\* "adb devices" prints a heading and one line per target with its state.
Heading == <<"List", "of", "devices", "attached">>
TargetLines ==
    {<<>>, <<"emulator-5554", "device">>, <<"R58M", "device">>,
     <<"emulator-5554", "offline">>, <<"R58M", "unauthorized">>}
\* What subprocess.run(["adb", "devices"], timeout=5) can do: adb is not
\* installed, the call times out, or it returns with adb's output, which is
\* empty when the adb server cannot be started.
AdbDevices ==
    {[ends |-> e, stdout |-> <<>>] : e \in {"FileNotFoundError", "TimeoutExpired"}}
    \cup {[ends |-> "returned", stdout |-> <<>>]}
    \cup {[ends |-> "returned", stdout |-> Heading \o t] : t \in TargetLines}

\* The command lines of main.
Commands ==
    [list : BOOLEAN, skip_checks : BOOLEAN,
     run : {"test", "test_unknown", "demo", "all", "default"}]

\* check_prerequisites: no error for the credential and none for adb.
check_prerequisites(key, adb) ==
    /\ key
    /\ adb.ends = "returned"
    /\ ~(~InText("emulator", adb.stdout) /\ ~InText("device", adb.stdout))

\* The program has been started with some command line, in some environment.
MainInit ==
    /\ Constructed("main")
    /\ pending = <<>>
    /\ test_cases = <<>>
    /\ adb_call = NoCall
    /\ args \in Commands
    /\ GOOGLE_API_KEY \in BOOLEAN
    /\ adb_devices \in AdbDevices
    /\ exit_code = -1
    /\ tests_started = FALSE

\* main: --list prints the test cases and returns 0.
main_list ==
    /\ pc = "main"
    /\ args.list
    /\ exit_code' = 0
    /\ pc' = "main_exited"
    /\ UNCHANGED <<args, GOOGLE_API_KEY, adb_devices, tests_started>>
    /\ UNCHANGED <<pending, supervisor_vars, action, raised, planner_vars, plan_calls,
                   executor_vars, suite_vars, adb_vars>>

\* main: the prerequisites are checked unless --skip-checks is given.
main_check ==
    /\ pc = "main"
    /\ ~args.list
    /\ IF ~args.skip_checks /\ ~check_prerequisites(GOOGLE_API_KEY, adb_devices)
       THEN exit_code' = 1 /\ pc' = "main_exited"
       ELSE exit_code' = exit_code /\ pc' = "main_run"
    /\ UNCHANGED <<args, GOOGLE_API_KEY, adb_devices, tests_started>>
    /\ UNCHANGED <<pending, supervisor_vars, action, raised, planner_vars, plan_calls,
                   executor_vars, suite_vars, adb_vars>>

\* main: the test cases chosen on the command line are run; a test name
\* that is not known runs nothing and gives 1, an exception gives 1 and an
\* interrupt 130.
main_run ==
    /\ pc = "main_run"
    /\ IF args.run = "test_unknown"
       THEN exit_code' = 1 /\ UNCHANGED tests_started
       ELSE /\ tests_started' = TRUE
            /\ \E ends \in {"returned", "Exception", "KeyboardInterrupt"} :
                 exit_code' = CASE ends = "returned" -> 0
                                [] ends = "Exception" -> 1
                                [] OTHER -> 130
    /\ pc' = "main_exited"
    /\ UNCHANGED <<args, GOOGLE_API_KEY, adb_devices>>
    /\ UNCHANGED <<pending, supervisor_vars, action, raised, planner_vars, plan_calls,
                   executor_vars, suite_vars, adb_vars>>

MainNext == main_list \/ main_check \/ main_run

MainSpec == MainInit /\ [][MainNext]_vars

\* The calls of the element functions: a search of a UI dump, or the parsing
\* of a bounds string.
FindCalls ==
    {[op |-> "find", kind |-> kind, query |-> q, snapshot |-> snapshot] :
        kind \in SearchKinds, q \in Queries, snapshot \in Snapshots}
ParseCalls == {[op |-> "parse", bounds_str |-> b] : b \in BoundsStrings}

\* ADBTools has been constructed and a caller is about to make one call.
ResolverInit ==
    /\ Constructed("adb")
    /\ MainNotCalled
    /\ pending = <<>>
    /\ test_cases = <<>>
    /\ adb_call \in FindCalls \cup ParseCalls

\* One search of the UI dump and the tap on what it finds.
find_element_call ==
    /\ pc = "adb"
    /\ adb_call.op = "find"
    /\ adb_result' =
          [element |-> find_element(adb_call.kind, adb_call.query, adb_call.snapshot),
           tap |-> tap_element(adb_call.kind, adb_call.query, adb_call.snapshot)]
    /\ pc' = "adb_returned"
    /\ UNCHANGED <<since_last_api_call, pending, supervisor_vars, action, raised,
                   attempt, last_error, plan_args, last_response, api_calls,
                   plan_calls, executor_vars, suite_vars, adb_call, main_vars>>

\* One call of _parse_bounds, and of _get_center on what it returns.
parse_bounds_call ==
    /\ pc = "adb"
    /\ adb_call.op = "parse"
    /\ LET parsed == parse_bounds(adb_call.bounds_str)
       IN  adb_result' =
             [raises |-> parsed.raises, bounds |-> parsed.value,
              center |-> IF parsed.raises = "no" THEN get_center(parsed.value)
                         ELSE <<>>]
    /\ pc' = "adb_returned"
    /\ UNCHANGED <<since_last_api_call, pending, supervisor_vars, action, raised,
                   attempt, last_error, plan_args, last_response, api_calls,
                   plan_calls, executor_vars, suite_vars, adb_call, main_vars>>

ResolverNext == find_element_call \/ parse_bounds_call

ResolverSpec == ResolverInit /\ [][ResolverNext]_vars

\* ==================================================================== claims
TerminalIds == {"test_complete", "test_failed"}
RunEnded == pc \in {"returned", "raised"}
LastRecord == step_records[Len(step_records)]
NoTerminalRecorded ==
    \A i \in 1..Len(step_records) : Get(step_records[i].action) \notin TerminalIds

\* The ways a run can end.
EndedByTerminal ==
    /\ pc = "returned"
    /\ Len(step_records) >= 1
    /\ Get(LastRecord.action) \in TerminalIds
EndedByBudget ==
    /\ pc = "returned"
    /\ plan_calls = MAX_STEPS
    /\ Len(step_records) = MAX_STEPS
    /\ NoTerminalRecorded
EndedByScreenshot == pc = "returned" /\ plan_calls = 0 /\ step_records = <<>>
EndedByException == pc = "raised"
Ways ==
    (IF EndedByTerminal THEN 1 ELSE 0) + (IF EndedByBudget THEN 1 ELSE 0)
    + (IF EndedByScreenshot THEN 1 ELSE 0) + (IF EndedByException THEN 1 ELSE 0)

\* C1 (as stated): every run of run_test is ended by exactly one of a terminal
\* action returned by the planner and exhaustion of the step budget, never
\* both and never neither.
C1_TerminalXorBudget == RunEnded => (EndedByTerminal # EndedByBudget)

\* C1 (amended): every run of run_test ends in exactly one of four ways: a
\* terminal action returned by the planner, exhaustion of the step budget,
\* failure to obtain the initial screenshot, or an exception that leaves
\* run_test; never two of them and never none.
C1_ExactlyOneEnding == RunEnded => Ways = 1

C1_Witness ==
    /\ EndedByScreenshot
    /\ result.status = ERROR
    /\ ~EndedByTerminal
    /\ ~EndedByBudget

\* C2: a terminal action planned at step k is executed once and recorded, and
\* the run returns there: step k is the last record, and the run made exactly k
\* analyze_and_plan calls and k execute calls.
C2_TerminalStopsLoop ==
    \A i \in 1..Len(step_records) :
        Get(step_records[i].action) \in TerminalIds =>
            /\ i = Len(step_records)
            /\ step_records[i].step_number = i
            /\ pc = "returned"
            /\ plan_calls = i
            /\ action_count = i

C2_Witness ==
    /\ pc = "returned"
    /\ Len(step_records) = 1
    /\ 1 < MAX_STEPS
    /\ Get(step_records[1].action) = "test_failed"
    /\ plan_calls = 1
    /\ action_count = 1

\* C3: when MAX_STEPS planning calls have all returned non-terminal actions,
\* the run ends with status ERROR and an actual result that names MAX_STEPS.
C3_BudgetExhaustionIsError ==
    (/\ RunEnded
     /\ plan_calls = MAX_STEPS
     /\ NoTerminalRecorded
     /\ Get(action) \notin TerminalIds)
    => /\ pc = "returned"
       /\ result.status = ERROR
       /\ result.actual_result.text = "Test did not complete within steps"
       /\ result.actual_result.arg = MAX_STEPS

\* C4: the status of every result run_test returns is PASSED, FAILED or ERROR;
\* it is PASSED exactly when the run ended on a test_complete action, FAILED
\* exactly when it ended on a test_failed action, and ERROR exactly when the
\* step budget was exhausted or the initial screenshot could not be obtained.
C4_StatusOfResult ==
    pc = "returned" =>
        /\ result.status \in {PASSED, FAILED, ERROR}
        /\ result.status = PASSED <=>
              (Len(step_records) >= 1 /\ Get(LastRecord.action) = "test_complete")
        /\ result.status = FAILED <=>
              (Len(step_records) >= 1 /\ Get(LastRecord.action) = "test_failed")
        /\ result.status = ERROR <=>
              \/ plan_calls = 0
              \/ plan_calls = MAX_STEPS /\ NoTerminalRecorded
        /\ \A i \in 1..Len(test_results) :
              test_results[i].status \in {PASSED, FAILED, ERROR}

C4_Witness ==
    /\ pc = "returned"
    /\ result.status = ERROR
    /\ plan_calls = MAX_STEPS
    /\ Len(step_records) = MAX_STEPS

\* C5: is_correct is true exactly when (should_pass and status = PASSED) or
\* (not should_pass and status = FAILED), for every status and for the result
\* of every run; it is false for ERROR, PENDING and RUNNING.
C5_Table(r) ==
    is_correct(r) <=>
        \/ r.test_case.should_pass /\ r.status = PASSED
        \/ ~r.test_case.should_pass /\ r.status = FAILED
C5_IsCorrect ==
    /\ \A sp \in BOOLEAN, st \in TestStatus :
          LET r == [NoResult EXCEPT !.test_case.should_pass = sp, !.status = st]
          IN  /\ C5_Table(r)
              /\ st \in {ERROR, PENDING, RUNNING} => ~is_correct(r)
    /\ pc = "returned" =>
          /\ C5_Table(result)
          /\ result.status = ERROR => ~is_correct(result)

C5_Witness ==
    /\ pc = "returned"
    /\ result.status = ERROR
    /\ ~result.test_case.should_pass
    /\ ~is_correct(result)

\* C6: a step k < MAX_STEPS whose non-terminal action was executed with
\* success = false is recorded as failed and neither ends the run nor sets the
\* status: the loop goes on to step k+1, whose planning call is enabled and
\* receives a history holding the step-k entry with success = false.
C6_StepFailureContinues ==
    \A k \in 1..Len(step_records) :
        (/\ k < MAX_STEPS
         /\ ~step_records[k].success
         /\ Get(step_records[k].action) \notin TerminalIds)
        => /\ step_records[k].step_number = k
           /\ k <= Len(previous_actions)
           /\ previous_actions[k].step = k
           /\ ~previous_actions[k].success
           /\ Len(step_records) = k =>
                 /\ step = k + 1
                 /\ final_status = RUNNING
                 /\ pc \in {"loop", "planning", "calling", "execute", "raised"}
                 /\ pc = "raised" => plan_calls = k + 1
                 /\ pc = "loop" => ENABLED analyze_and_plan_begin
                 /\ pc \in {"planning", "calling", "execute"} =>
                       /\ plan_args.current_step = k + 1
                       /\ Len(plan_args.previous_actions) = k
                       /\ plan_args.previous_actions[k].step = k
                       /\ ~plan_args.previous_actions[k].success

C6_Witness ==
    /\ pc = "calling"
    /\ step = 2
    /\ Len(step_records) = 1
    /\ step_records[1].action.action = "tap_by_text"
    /\ step_records[1].message.text = "Could not find"
    /\ ~step_records[1].success
    /\ ~plan_args.previous_actions[1].success

\* C7: for every action the planner can return and every executor outcome,
\* run_test returns a result: no exception leaves it from the step loop.
C7_NoExceptionFromLoop == raised \notin {"execute", "run_test", "analyze_and_plan"}

\* C8: analyze_and_plan never raises and returns a dictionary, whatever the
\* decision service does: the service's object, the wait fallback for text
\* that is not JSON, the test_failed fallback for JSON that is not an object
\* and for errors of the service.
C8_PlanReturnsAction ==
    /\ raised # "analyze_and_plan"
    /\ pc = "execute" =>
          /\ action.dict
          /\ last_response \in {"object", "non_json", "non_object", "error"}
          /\ last_response = "object" => action \in ServiceActions
          /\ last_response = "non_json" => action = ParseFallback
          /\ last_response = "non_object" => action = ErrorFallback(AttributeError)
          /\ last_response = "error" => action = ErrorFallback(last_error)

C8_Witness ==
    /\ pc = "execute"
    /\ last_response = "non_object"
    /\ action.dict
    /\ action.action = "test_failed"

\* C9: within one analyze_and_plan call the retries never exceed MAX_RETRIES
\* and the service calls never exceed MAX_RETRIES + 1; a call whose every
\* attempt failed with a rate-limit error returns the test_failed fallback.
C9_RetriesBounded ==
    /\ attempt <= MAX_RETRIES
    /\ api_calls <= MAX_RETRIES + 1
    /\ pc \in {"planning", "calling"} => api_calls = attempt
    /\ raised # "analyze_and_plan"
    /\ (pc = "execute" /\ last_response = "error" /\ last_error.sig # "none") =>
          /\ attempt = MAX_RETRIES
          /\ api_calls = MAX_RETRIES + 1
          /\ action = ErrorFallback(last_error)

C9_Witness ==
    /\ pc = "execute"
    /\ last_response = "error"
    /\ last_error.sig = "429"
    /\ api_calls = MAX_RETRIES + 1
    /\ action.action = "test_failed"

\* C10: every call of the decision service begins at least API_CALL_DELAY
\* seconds after the previous call of the same planner began.
C10_CallSpacing ==
    [][api_calls' = api_calls + 1 => since_last_api_call >= API_CALL_DELAY]_vars

C10_Witness ==
    /\ pc = "calling"
    /\ api_calls >= 1 \/ plan_calls >= 2
    /\ since_last_api_call = API_CALL_DELAY

\* C11: when the response of the decision service is not JSON, analyze_and_plan
\* makes no further service call: the failing call is its last, it returns at
\* once, without raising, the action {action: wait, seconds: 1} whose
\* description notes the planning error.
C11_ParseFailureWaits ==
    last_response = "non_json" =>
        /\ pc = "execute"
        /\ raised = "nothing"
        /\ api_calls = attempt + 1
        /\ ~ENABLED rate_limit_wait
        /\ ~ENABLED generate_content
        /\ action = ParseFallback
        /\ action.dict
        /\ action.action = "wait"
        /\ action.seconds = 1
        /\ action.description = "Waiting due to planning error, will retry"

C11_Witness ==
    /\ pc = "execute"
    /\ last_response = "non_json"
    /\ api_calls = 1
    /\ action.action = "wait"
    /\ action.seconds = 1

\* C12 (as stated): when a service call fails with an error whose text has no
\* rate-limit signature, exactly one service call was made by that
\* analyze_and_plan call, and it returns a test_failed action whose reason
\* carries the error text.
C12_ExactlyOneCall ==
    (pc = "execute" /\ last_response = "error" /\ last_error.sig = "none") =>
        /\ api_calls = 1
        /\ action.action = "test_failed"
        /\ action.reason = last_error

\* C12 (amended): when a service call fails with an error whose text has no
\* rate-limit signature, analyze_and_plan makes no service call after it (it
\* is the only call when no rate-limited attempt came before it, and the
\* last one otherwise) and returns a test_failed action whose reason carries
\* the error text.
C12_NoRetryAfterNonTransient ==
    (last_response = "error" /\ last_error.sig = "none") =>
        /\ pc = "execute"
        /\ raised = "nothing"
        /\ api_calls = attempt + 1
        /\ attempt = 0 => api_calls = 1
        /\ ~ENABLED rate_limit_wait
        /\ ~ENABLED generate_content
        /\ action = ErrorFallback(last_error)
        /\ action.action = "test_failed"
        /\ action.reason = last_error

C12_Witness ==
    /\ pc = "execute"
    /\ last_response = "error"
    /\ last_error.sig = "none"
    /\ attempt = 1
    /\ api_calls = 2
    /\ action.action = "test_failed"

\* The fallbacks analyze_and_plan synthesizes, by their descriptions.
IsFallback(a) ==
    a.description \in {"Waiting due to planning error, will retry",
                       "Internal planner error"}

\* C13 (as stated): when an attempt failed with a rate-limit signature and a
\* later attempt within the retry ceiling returns valid JSON, analyze_and_plan
\* slept the backoff delay between the two and returns the action that
\* attempt proposed, not a fallback.
C13_RetryThenValidJson ==
    /\ (pc \in {"planning", "calling"} /\ attempt >= 1) =>
          since_last_api_call >= extract_retry_delay(last_error)
    /\ (pc = "execute" /\ attempt >= 1 /\ last_response \in {"object", "non_object"}) =>
          ~IsFallback(action)

\* C13 (amended): when an attempt failed with a rate-limit signature and a
\* later attempt within the retry ceiling returns a JSON object,
\* analyze_and_plan slept the backoff delay between the two attempts (the
\* next attempt begins at least extract_retry_delay after the failed one) and
\* returns that object, not a fallback.
C13_RetryThenSuccess ==
    /\ (pc \in {"planning", "calling"} /\ attempt >= 1) =>
          /\ is_rate_limit(last_error)
          /\ attempt <= MAX_RETRIES
          /\ since_last_api_call >= extract_retry_delay(last_error)
    /\ (pc = "execute" /\ attempt >= 1 /\ last_response = "object") =>
          /\ is_rate_limit(last_error)
          /\ action \in ServiceActions
          /\ ~IsFallback(action)
          /\ raised = "nothing"

C13_Witness ==
    /\ pc = "execute"
    /\ attempt = 1
    /\ api_calls = 2
    /\ last_error.sig = "429"
    /\ last_response = "object"
    /\ action.action = "tap_by_text"

\* C14: when the planner returns a terminal action at step k, 1 <= k <=
\* MAX_STEPS, after k-1 non-terminal actions, the TestResult has exactly k step
\* entries, the k-th being the terminal step, and its status is PASSED for
\* test_complete and FAILED for test_failed.
C14_TerminalAtStepK ==
    (pc = "returned" /\ Len(step_records) >= 1
     /\ Get(LastRecord.action) \in TerminalIds) =>
        LET k == plan_calls
        IN  /\ k \in 1..MAX_STEPS
            /\ Len(step_records) = k
            /\ \A i \in 1..(k - 1) : Get(step_records[i].action) \notin TerminalIds
            /\ Len(result.steps_executed) = k
            /\ \A i \in 1..k : result.steps_executed[i][1] = i
            /\ result.steps_executed[k][2] = Get(LastRecord.action)
            /\ Get(LastRecord.action) = "test_complete" => result.status = PASSED
            /\ Get(LastRecord.action) = "test_failed" => result.status = FAILED

C14_Witness ==
    /\ pc = "returned"
    /\ plan_calls = MAX_STEPS
    /\ MAX_STEPS >= 2
    /\ Get(step_records[1].action) = "wait"
    /\ Get(LastRecord.action) = "test_complete"
    /\ Len(result.steps_executed) = MAX_STEPS
    /\ result.status = PASSED

\* C15: when the initial screenshot cannot be obtained, run_test returns a
\* result of status ERROR before any step: the run made no analyze_and_plan
\* call and no execute call, and the result has no step entry.
C15_InitialScreenshotFailure ==
    (pc = "returned"
     /\ result.actual_result.text = "Failed to get initial screenshot") =>
        /\ result.status = ERROR
        /\ plan_calls = 0
        /\ action_count = 0
        /\ executed = NotExecuted
        /\ step_records = <<>>
        /\ result.steps_executed = <<>>
        /\ result.screenshots = <<>>

C15_Witness ==
    /\ pc = "returned"
    /\ result.actual_result.text = "Failed to get initial screenshot"
    /\ result.status = ERROR
    /\ plan_calls = 0

\* C16: every run_test call that returns has created one TestResult and
\* appended it to test_results: after the n-th run test_results has n entries,
\* the last being the result returned.
C16_EveryResultAppended ==
    pc = "returned" =>
        /\ Len(test_results) = 1 - Len(pending)
        /\ test_results[Len(test_results)] = result

\* In ExecutorSpec: execute has been called, on action, and did executed.
Called == action \in ExecutorActions

\* C17: execute on a test_complete or test_failed action invokes no device
\* input primitive, always returns success = true, and always returns a final
\* screenshot.
C17_TerminalExecute ==
    (Called /\ IsStr(action.action) /\ Lower(Get(action)) \in TerminalIds) =>
        /\ ~executed.raises
        /\ "input" \notin executed.trace.invoked
        /\ executed.success
        /\ executed.screenshot # None

\* An identifier that is not one of the kinds execute has a branch for.
IsUnknown(a) == ~IsStr(a.action) \/ Lower(Get(a)) \notin KnownKinds

\* C18: for every action whose identifier is not a known action kind, a
\* missing identifier included, execute returns success = false with a message
\* that names the identifier and no screenshot, and invokes nothing on the
\* device.
C18_UnknownAction ==
    (Called /\ IsUnknown(action)) =>
        /\ ~executed.raises
        /\ ~executed.success
        /\ executed.message.text = "Unknown action type"
        /\ executed.message.arg = Lower(Get(action))
        /\ executed.screenshot = None
        /\ executed.trace.invoked = {}

\* C19: for tap_by_text, tap_by_resource_id and tap_by_hint whose element is
\* not found, execute returns success = false with the message that says the
\* element could not be found, not the message of a device failure; it makes
\* no tap and still attempts a capture.
C19_ElementNotFound ==
    (Called /\ executed.trace.element = "not_found") =>
        /\ Lower(Get(action)) \in TapByKinds
        /\ ~executed.raises
        /\ ~executed.success
        /\ executed.message.text = "Could not find"
        /\ "input" \notin executed.trace.invoked
        /\ "screenshot" \in executed.trace.invoked

\* C20: when the device backend raises while an action is executed, execute
\* catches the exception: it returns success = false with the error text as
\* message and a best-effort screenshot, None exactly when that capture
\* fails too; no exception reaches the caller.
C20_BackendRaiseCaught ==
    (Called /\ executed.trace.caught # "none") =>
        /\ ~executed.raises
        /\ executed.counted
        /\ ~executed.success
        /\ executed.message = Message("Execution error", "exception")
        /\ executed.trace.recapture \in {"ok", "raise"}
        /\ executed.trace.recapture = "raise" <=> executed.screenshot = None
        /\ executed.trace.recapture = "ok" <=> executed.screenshot # None
        /\ ~executed.remember

C20_Witness ==
    /\ Called
    /\ action.action = "swipe"
    /\ executed.trace.caught = "primitive"
    /\ executed.trace.recapture = "raise"
    /\ executed.screenshot = None
    /\ ~executed.success

\* C21: execute on a wait action sleeps and reports success = true
\* unconditionally: whatever duration is requested and whatever the capture
\* that follows does.
C21_WaitSucceeds ==
    (Called /\ IsStr(action.action) /\ Lower(Get(action)) = "wait") =>
        /\ ~executed.raises
        /\ "sleep" \in executed.trace.invoked
        /\ executed.success

\* C22: every call of execute advances action_count by exactly 1, whatever
\* the kind of the action and whatever the outcome, and the counter decreases
\* only through reset, which sets it to 0.
C22_CounterAdvances ==
    [][/\ execute_call => action_count' = action_count + 1
       /\ action_count' < action_count => (executor_reset_call /\ action_count' = 0)]_vars

\* In ResolverSpec: the call adb_call has returned adb_result.
Searched == pc = "adb_returned" /\ adb_call.op = "find"
Parsed == pc = "adb_returned" /\ adb_call.op = "parse"
\* The attribute of the i-th node of the dump searched.
AttrOf(i) == adb_call.snapshot[i].attr
\* The attribute contains the query, letter case ignored.
ContainsIgnoringCase(q, attr) == Contains(LowerStr(q), LowerStr(attr))

\* C23: the exact-text search returns an element only when its text equals
\* the query: never one whose text merely contains the query or differs
\* from it in letter case.
C23_ExactTextOnly ==
    (Searched /\ adb_call.kind = "text" /\ adb_result.element.found) =>
        /\ adb_result.element.index \in 1..Len(adb_call.snapshot)
        /\ AttrOf(adb_result.element.index) = adb_call.query
        /\ adb_result.element.attr = adb_call.query

C23_Witness ==
    /\ Searched
    /\ adb_call.kind = "text"
    /\ adb_call.query = <<"a">>
    /\ Len(adb_call.snapshot) = 2
    /\ AttrOf(1) \in {<<"A">>, <<"a", "b">>}
    /\ adb_call.snapshot[1].bounds = <<Corner(0, 0), Corner(MaxCoord, MaxCoord)>>
    /\ adb_result.element.found
    /\ adb_result.element.index = 2

\* The bounds of the i-th node of the dump searched can be parsed.
ParsableAt(i) == parse_bounds(adb_call.snapshot[i].bounds).raises = "no"

\* C24: the partial-text, resource-id and hint searches use case-insensitive
\* substring containment: an element is matched whenever its attribute
\* contains the query, letter case ignored, and only then.
C24_ContainmentIgnoringCase ==
    (Searched /\ adb_call.kind \in {"text_contains", "resource_id", "hint"}) =>
        /\ adb_result.element.found =>
              ContainsIgnoringCase(adb_call.query, AttrOf(adb_result.element.index))
        /\ ~adb_result.element.found =>
              \A i \in 1..Len(adb_call.snapshot) :
                  ParsableAt(i) => ~ContainsIgnoringCase(adb_call.query, AttrOf(i))

\* The nodes of the dump searched whose attribute passes the test of the
\* search.
Matching == {i \in 1..Len(adb_call.snapshot) : matches(adb_call.kind, adb_call.query, AttrOf(i))}

\* C25: each search returns the first node, in document order, whose
\* attribute matches the query, and returns None exactly when no node of
\* the dump matches.
C25_FirstMatch ==
    Searched =>
        /\ adb_result.element.found <=> Matching # {}
        /\ adb_result.element.found =>
              /\ adb_result.element.index \in Matching
              /\ \A i \in Matching : adb_result.element.index <= i
        /\ ~adb_result.element.found => adb_result.element = NotFound

\* The bounds string is two corners and nothing else.
WellFormed(b) == Len(b) = 2 /\ b[1].ok /\ b[2].ok

\* C26 (as stated): for every well-formed bounds string [x1,y1][x2,y2] the
\* tap point is ((x1+x2)/2, (y1+y2)/2): twice each coordinate of the point is
\* the sum of the two corners' coordinates.
C26_CenterIsHalfSum ==
    (Parsed /\ WellFormed(adb_call.bounds_str)) =>
        LET b == adb_call.bounds_str
        IN  /\ adb_result.raises = "no"
            /\ 2 * adb_result.center[1] = b[1].x + b[2].x
            /\ 2 * adb_result.center[2] = b[1].y + b[2].y

\* cx is the half of sum, rounded down.
IsFloorHalf(cx, sum) == 2 * cx <= sum /\ sum < 2 * cx + 2

\* C26 (amended): for every well-formed bounds string [x1,y1][x2,y2] the tap
\* point is (floor((x1+x2)/2), floor((y1+y2)/2)), the half sums rounded down
\* to integers; [100,200][300,260] gives (200,230); the point an element
\* search taps is that point of the element's bounds.
C26_CenterIsFloorHalfSum ==
    /\ get_center(parse_bounds(<<Corner(100, 200), Corner(300, 260)>>).value)
          = <<200, 230>>
    /\ (Parsed /\ WellFormed(adb_call.bounds_str)) =>
          LET b == adb_call.bounds_str
          IN  /\ adb_result.raises = "no"
              /\ adb_result.bounds = <<b[1].x, b[1].y, b[2].x, b[2].y>>
              /\ IsFloorHalf(adb_result.center[1], b[1].x + b[2].x)
              /\ IsFloorHalf(adb_result.center[2], b[1].y + b[2].y)
    /\ (Searched /\ adb_result.tap.tapped) =>
          LET b == adb_call.snapshot[adb_result.element.index].bounds
          IN  /\ WellFormed(b)
              /\ IsFloorHalf(adb_result.tap.point[1], b[1].x + b[2].x)
              /\ IsFloorHalf(adb_result.tap.point[2], b[1].y + b[2].y)

C26_Witness ==
    /\ Parsed
    /\ adb_call.bounds_str = <<Corner(0, 1), Corner(3, 2)>>
    /\ adb_result.raises = "no"
    /\ adb_result.center = <<1, 1>>

\* C27: a bounds string that does not consist of two corner points is
\* rejected with ValueError; parsing never yields default coordinates, and no
\* search result or tap uses (0,0) in place of bounds that could not be
\* parsed.
C27_MalformedBoundsRejected ==
    /\ Parsed =>
          /\ ~WellFormed(adb_call.bounds_str) =>
                /\ adb_result.raises = "ValueError"
                /\ adb_result.bounds = <<>>
                /\ adb_result.center = <<>>
          /\ WellFormed(adb_call.bounds_str) => adb_result.raises = "no"
    /\ (Searched /\ adb_result.element.found) =>
          /\ ParsableAt(adb_result.element.index)
          /\ WellFormed(adb_call.snapshot[adb_result.element.index].bounds)
          /\ adb_result.tap.tapped

\* How a run of run_test in Spec has ended, as an outcome of RunTestOutcomes.
RunTestOutcome ==
    IF pc = "raised" THEN [ends |-> "raised", status |-> RUNNING, appended |-> FALSE]
    ELSE [ends |-> "returned", status |-> result.status,
          appended |-> (test_results # <<>>)]
\* Every end of a run in Spec is one of the outcomes run_all_tests is
\* modelled with.
RunTestOutcomesCoverRuns == RunEnded => RunTestOutcome \in RunTestOutcomes

\* C28: run_all_tests runs the test cases one at a time in input order: test
\* i+1 starts only after tests 1..i have returned their results, and the list
\* returned has exactly one result per test case, in the order of the input.
C28_SuiteInOrder ==
    /\ Len(results) <= Len(test_cases)
    /\ \A j \in 1..Len(results) : results[j].test_case = test_cases[j]
    /\ pc = "suite_in_test" =>
          /\ Len(results) < Len(test_cases)
          /\ current_test = test_cases[Len(results) + 1]
          /\ pending = SubSeq(test_cases, Len(results) + 2, Len(test_cases))
    /\ pc = "suite_loop" =>
          pending = SubSeq(test_cases, Len(results) + 1, Len(test_cases))
    /\ pc = "suite_returned" => Len(results) = Len(test_cases)

C28_Witness ==
    /\ pc = "suite_returned"
    /\ Len(test_cases) = 2
    /\ Len(results) = 2
    /\ results[1].test_case.name = 1
    /\ results[2].test_case.name = 2
    /\ results[1].status = FAILED
    /\ results[2].status = PASSED

\* C29: within a run planning and execution strictly alternate, starting with
\* planning: the planning call for step k is made when k-1 actions have been
\* planned, executed and recorded, the execute call for step k is made on the
\* action that call returned, and when the loop is left every planned action
\* has been handed to execute exactly once, in order.
C29_PlanExecuteAlternate ==
    /\ \A i \in 1..Len(step_records) : step_records[i].step_number = i
    /\ pc = "loop" =>
          /\ plan_calls = step - 1
          /\ Len(step_records) = step - 1
          /\ action_count = step - 1
          /\ step > 1 => step_records[step - 1].action = action
    /\ pc \in {"planning", "calling", "execute"} =>
          /\ plan_calls = step
          /\ plan_args.current_step = step
          /\ Len(step_records) = step - 1
          /\ action_count = step - 1
    /\ pc = "execute" => ENABLED execute_step
    /\ (pc = "returned" /\ plan_calls > 0) =>
          /\ plan_calls = Len(step_records)
          /\ action_count = Len(step_records)
          /\ step_records[plan_calls].action = action
    /\ (pc = "raised" /\ plan_calls > 0) =>
          /\ raised = "execute"
          /\ executed.raises
          /\ plan_calls = Len(step_records) + 1

C29_Witness ==
    /\ pc = "returned"
    /\ plan_calls = 2
    /\ action_count = 2
    /\ Len(step_records) = 2
    /\ Get(step_records[1].action) = "wait"
    /\ Get(step_records[2].action) = "test_complete"

C31_CaptureFailureIsAbsence ==
    (Called /\ executed.trace.caught = "screenshot") =>
        /\ ~executed.raises
        /\ executed.screenshot = None
\* Is a target attached and ready: a line of "adb devices" in state device.
Attached(adb) ==
    /\ adb.ends = "returned"
    /\ \E i \in 1..Len(adb.stdout) : adb.stdout[i] = "device"

\* C32: unless the checks are skipped (or the tests are only listed), main
\* checks the prerequisites before any test: with the credential missing or
\* no automation target attached it exits with a non-zero code and no test
\* case is run.
C32_PreflightBeforeTests ==
    (~args.skip_checks /\ (~GOOGLE_API_KEY \/ ~Attached(adb_devices))) =>
        /\ ~tests_started
        /\ pc # "main_run"
        /\ pc = "main_exited" => (args.list \/ exit_code = 1)
\* The sleep the error text asks for: N+1 for "retry in Ns", otherwise N+1
\* for "seconds: N", otherwise the fixed fallback.
SuggestedSleep(e) ==
    CASE e.retry_in >= 0 -> e.retry_in + 1
      [] e.retry_in < 0 /\ e.seconds >= 0 -> e.seconds + 1
      [] OTHER -> 5

C34_BoundedRunWithResult ==
    /\ plan_calls <= MAX_STEPS
    /\ action_count <= MAX_STEPS
    /\ Len(step_records) <= MAX_STEPS
    /\ api_calls <= MAX_RETRIES + 1
    /\ pc = "raised" => raised = "prepare_for_test"
    /\ pc = "returned" => result # NoResult
    /\ pc \notin {"returned", "raised"} => ENABLED Next
\* The records of the current run, as C35 describes them: none while the run
\* is being prepared, then one per iteration made, numbered from 1, each
\* screenshot reference being one of the current test.
RecordsOwnedByRun ==
    /\ pc \in {"prepare", "screenshot"} => step_records = <<>>
    /\ current_test.name = 2 =>
          /\ \A i \in 1..Len(step_records) :
                /\ step_records[i].step_number = i
                /\ step_records[i].screenshot_path \in {None, <<current_test.name, i>>}
          /\ pc \in {"loop", "planning", "calling", "execute"} =>
                Len(step_records) = step - 1
          /\ pc = "returned" => Len(step_records) = plan_calls
\* The records change only by being cleared when run_test begins or by the
\* record of the current step being appended.
RecordsAppendOnly ==
    step_records' # step_records =>
        \/ pc = "returned" /\ pc' = "prepare" /\ step_records' = <<>>
        \/ /\ pc = "execute"
           /\ Len(step_records') = Len(step_records) + 1
           /\ SubSeq(step_records', 1, Len(step_records)) = step_records
           /\ step_records'[Len(step_records')].step_number = step

C38_SpacingAcrossTests ==
    [][/\ (pc = "returned" /\ pc' = "prepare") =>
              since_last_api_call' = since_last_api_call
       /\ (current_test.name = 2 /\ plan_calls = 1 /\ api_calls = 0
              /\ api_calls' = 1) =>
              since_last_api_call >= API_CALL_DELAY]_vars

C38_Witness ==
    /\ current_test.name = 2
    /\ pc = "calling"
    /\ plan_calls = 1
    /\ api_calls = 0
    /\ since_last_api_call = API_CALL_DELAY
\* C36: the loop and the executor agree on which actions are terminal:
\* whenever execute handles an action as test_complete or test_failed, the
\* identifier matching after lower-casing, the loop ends the run at that step
\* with PASSED or FAILED and makes no further planning call.
C36_TerminalAgreement ==
    \A i \in 1..Len(step_records) :
        (/\ IsStr(step_records[i].action.action)
         /\ Lower(Get(step_records[i].action)) \in {"test_complete", "test_failed"})
        => /\ i = Len(step_records)
           /\ plan_calls = i
           /\ pc = "returned"
           /\ final_status \in {PASSED, FAILED}
\* The run has ended at the fallback action analyze_and_plan returns when the
\* decision service has failed.
EndedByPlannerFailure ==
    /\ pc = "returned"
    /\ plan_calls > 0
    /\ action.description = "Internal planner error"
    /\ action.reason \in ServiceErrors

\* C37: a run that ends because the planning service failed, by an error that
\* is not transient or with the retries exhausted, is never reported as
\* correct: is_correct is false for should_pass = true and for should_pass =
\* false.
C37_PlannerFailureNeverCorrect == EndedByPlannerFailure => ~is_correct(result)
\* The wait(1) fallback, and a run all of whose steps so far are that
\* fallback, the step being executed included.
IsWaitOne(a) == a.dict /\ a.action = "wait" /\ a.seconds = 1
AllStepsWaitOne ==
    /\ \A i \in 1..Len(step_records) : IsWaitOne(step_records[i].action)
    /\ (plan_calls > Len(step_records) /\ pc \in {"execute", "raised"}) =>
          IsWaitOne(action)
\* What C39 says of a run in which the responses R are the malformed ones.
MalformedConsumeBudget(R) ==
    /\ (pc = "execute" /\ last_response \in R) =>
          /\ IsWaitOne(action)
          /\ AllStepsWaitOne => Len(step_records) = plan_calls - 1
    /\ AllStepsWaitOne =>
          /\ plan_calls <= MAX_STEPS
          /\ pc = "raised" => raised = "prepare_for_test"
          /\ pc = "loop" => Len(step_records) = plan_calls
          /\ (pc = "returned" /\ plan_calls > 0) =>
                /\ Len(step_records) = MAX_STEPS
                /\ plan_calls = MAX_STEPS
                /\ final_status = ERROR
                /\ result.status = ERROR

C40_EmptySuiteReturns ==
    test_cases = <<>> =>
        /\ pc # "suite_in_test"
        /\ results = <<>>
        /\ pc # "suite_raised"
        /\ pc = "suite_loop" => ENABLED run_all_tests_return
====
